---- MODULE Spec2Model ----
(***************************************************************************)
(* Vault API server (src/server.js): the request handlers of the express   *)
(* application, the backup writer and the start-up sequence, as a state    *)
(* machine.  Every await of a handler is a step boundary: the store call   *)
(* (or file write) takes effect and the handler's continuation up to the   *)
(* next await runs in one step.  Requests interleave freely between their  *)
(* steps, and the millisecond wall clock advances on its own.              *)
(*                                                                         *)
(* Strings of request bodies are sequences of one-character strings, so    *)
(* that trimming and JavaScript truthiness are computed, not assumed.      *)
(***************************************************************************)
EXTENDS Integers, Sequences, FiniteSets, TLC

\* ------------------------------------------------------------------ bounds
\* Largest value of the millisecond clock.
MaxClock == 2
\* Number of HTTP requests the clients send in one run.
MaxRequests == 2

\* ------------------------------------------------------------ input values
\* JavaScript's undefined: a body field or query parameter that is absent.
Undef == <<"undefined">>
\* Values of the body field `name`: absent, "", " ", "a", " b".
Names == {Undef, <<>>, <<" ">>, <<"a">>, <<" ", "b">>}
\* Values of the body field `content`: absent, "", " " (content is not trimmed).
Contents == {Undef, <<>>, <<" ">>}
\* Values of the query parameter `by` (Absent: not supplied; "": `?by=`).
Absent == "<absent>"
Bys == {Absent, "", "name", "date", "bogus"}
Orders == {Absent, "asc", "desc", "bogus"}
\* An :id path parameter that is not a castable ObjectId.
Malformed == 0

VARIABLES
    server,      \* "starting" | "listening" | "exited": position of startServer
    dirExists,   \* whether BACKUPS_DIR exists on disk
    clock,       \* Date.now(), in milliseconds
    store,       \* the Vault collection: _id -> document
    files,       \* BACKUPS_DIR: file name <<operation, timestamp>> -> contents
    nextId,      \* the next ObjectId the driver generates
    nreq,        \* requests received so far; request r is the r-th
    req,         \* r -> the r-th request's handler: inputs, position, locals
    removedBy,   \* history: _id -> the request whose findByIdAndDelete removed it
    acked        \* history: the _ids some DELETE has answered 200 for

vars == <<server, dirExists, clock, store, files, nextId, nreq, req, removedBy, acked>>

Reqs == 1..MaxRequests

\* ----------------------------------------------------------------- strings
\* JavaScript truthiness of a body field: undefined and "" are falsy.
Truthy(v) == v # Undef /\ v # <<>>

RECURSIVE TrimLeft(_)
TrimLeft(s) == IF s # <<>> /\ Head(s) = " " THEN TrimLeft(Tail(s)) ELSE s

RECURSIVE TrimRight(_)
TrimRight(s) ==
    IF s # <<>> /\ s[Len(s)] = " " THEN TrimRight(SubSeq(s, 1, Len(s) - 1)) ELSE s

\* The schema's `trim: true` setter on name.
Trim(s) == TrimRight(TrimLeft(s))

\* Character codes, for the store's binary string comparison.
Code(c) == CASE c = " " -> 32 [] c = "a" -> 97 [] c = "b" -> 98 [] OTHER -> 0

RECURSIVE StrLess(_, _)
StrLess(s, t) ==
    IF s = <<>> THEN t # <<>>
    ELSE IF t = <<>> THEN FALSE
    ELSE IF Code(Head(s)) # Code(Head(t)) THEN Code(Head(s)) < Code(Head(t))
    ELSE StrLess(Tail(s), Tail(t))

\* --------------------------------------------------------------- documents
NoEntry == [id |-> 0, name |-> <<>>, content |-> <<>>, createdAt |-> 0, updatedAt |-> 0]

\* The schema's `required: true` on a String path: present and non-empty.
RequiredOk(v) == v # Undef /\ v # <<>>

\* new Vault({name, content, ...}): the setters run, the defaults are taken.
NewVault(id, name, content, now) ==
    [id |-> id, name |-> Trim(name), content |-> content,
     createdAt |-> now, updatedAt |-> now]

\* Document validation before save.
ValidateDoc(doc) == RequiredOk(doc.name) /\ RequiredOk(doc.content)

\* The pre('save') hook.
PreSave(doc, now) == [doc EXCEPT !.updatedAt = now]

\* The empty collection, and the store calls on a collection.
NoDocs == [i \in {} |-> NoEntry]

Insert(st, doc) == [i \in DOMAIN st \cup {doc.id} |-> IF i = doc.id THEN doc ELSE st[i]]

Remove(st, id) == [i \in DOMAIN st \ {id} |-> st[i]]

NoTrigger == [name |-> Undef, id |-> 0]

\* ---------------------------------------------------------------- requests
Idle ==
    [kind |-> "NONE", pc |-> "idle", id |-> 0, name |-> Undef, content |-> Undef,
     by |-> Absent, order |-> Absent, ts |-> 0, entry |-> NoEntry, prev |-> NoEntry,
     fname |-> <<>>, trigger |-> NoTrigger, allData |-> NoDocs,
     sortBy |-> "createdAt", sortOrder |-> -1, result |-> <<>>, status |-> 0,
     log |-> <<>>, store0 |-> NoDocs, acked0 |-> {}]

Done(r, status) == [r EXCEPT !.pc = "done", !.status = status]

Logged(r, call) == [r EXCEPT !.log = Append(@, call)]

Has(r, call) == \E i \in 1..Len(r.log) : r.log[i] = call

\* The next request to arrive, once the server listens.
Arrives(r) ==
    /\ server = "listening"
    /\ nreq < MaxRequests
    /\ r = nreq + 1
    /\ nreq' = r

Fresh == [Idle EXCEPT !.store0 = store, !.acked0 = acked]

\* ------------------------------------------------------------------ start
\* The collection outlives the process: it starts with a document " b"
\* created by an earlier run, one millisecond or more ago (its backup, if
\* any, is no longer on disk).
Seeded == PreSave(NewVault(1, <<" ", "b">>, <<" ">>, 0), 0)

Init ==
    /\ server = "starting"
    /\ dirExists \in BOOLEAN
    /\ clock = Seeded.updatedAt + 1
    /\ store = Insert(NoDocs, Seeded)
    /\ files = [f \in {} |-> 0]
    /\ nextId = Seeded.id + 1
    /\ nreq = 0
    /\ req = [r \in Reqs |-> Idle]
    /\ removedBy = [i \in {} |-> 0]
    /\ acked = {}

\* ensureBackupsDir: mkdir's error is logged and not rethrown.
EnsureBackupsDir(ok) == IF ok THEN TRUE ELSE dirExists

\* startServer: await ensureBackupsDir(), then app.listen.
StartServer ==
    /\ server = "starting"
    /\ \E ok \in BOOLEAN : dirExists' = EnsureBackupsDir(ok)
    /\ server' = "listening"
    /\ UNCHANGED <<clock, store, files, nextId, nreq, req, removedBy, acked>>

\* SIGTERM / SIGINT: the process exits; the handlers in flight are gone.
Shutdown ==
    /\ server = "listening"
    /\ server' = "exited"
    /\ req' = [r \in Reqs |-> Idle]
    /\ UNCHANGED <<dirExists, clock, store, files, nextId, nreq, removedBy, acked>>

Tick ==
    /\ clock < MaxClock
    /\ clock' = clock + 1
    /\ UNCHANGED <<server, dirExists, store, files, nextId, nreq, req, removedBy, acked>>

\* The response has been sent: the handler's frame is gone.
Finish ==
    \E r \in Reqs :
        /\ req[r].pc = "done"
        /\ req' = [req EXCEPT ![r] = Idle]
        /\ UNCHANGED <<server, dirExists, clock, store, files, nextId, nreq, removedBy, acked>>

\* ---------------------------------------------------------- createBackup
\* createBackup(operation, data), up to its first await: the file name is
\* built from the operation and the clock's ISO timestamp (its ':' and '.'
\* replaced by '-', which keeps distinct milliseconds distinct), then
\* Vault.find({}) is issued.
CreateBackup(q, operation, data) ==
    [q EXCEPT !.pc = "backup_find", !.fname = <<operation, clock>>, !.trigger = data]

\* The snapshot createBackup writes; writer (history) is the request writing it.
BackupData(q, r) ==
    [operation |-> q.fname[1], trigger |-> q.trigger, data |-> q.allData, writer |-> r]

\* What the handler does once createBackup has returned.
AfterBackup(q) ==
    CASE q.kind = "POST" -> Done(q, 201)
      [] q.kind = "PUT" -> Done(q, 200)
      [] OTHER -> [q EXCEPT !.pc = "delete"]

\* Faulty variant of Rethrown: createBackup's catch logs and does not rethrow.
Swallowed(q, call) == AfterBackup(Logged(q, call))

\* createBackup's catch rethrows; the handler's catch answers 500.
Rethrown(q, call) == Done(Logged(q, call), 500)

\* await Vault.find({}) inside createBackup.
BackupFind ==
    \E r \in Reqs, ok \in BOOLEAN :
        /\ server = "listening"
        /\ req[r].pc = "backup_find"
        /\ req' = [req EXCEPT ![r] =
                IF ok THEN [Logged(@, "find") EXCEPT
                              !.pc = "backup_write", !.allData = store]
                ELSE Rethrown(@, "find!")]
        /\ UNCHANGED <<server, dirExists, clock, store, files, nextId, nreq, removedBy, acked>>

\* await fs.writeFile(backupPath, ...): fails when the directory is missing,
\* and may fail otherwise (disk full, permissions).
BackupWrite ==
    \E r \in Reqs, ok \in BOOLEAN :
        /\ server = "listening"
        /\ req[r].pc = "backup_write"
        /\ IF ok /\ dirExists
           THEN /\ files' = [f \in DOMAIN files \cup {req[r].fname} |->
                               IF f = req[r].fname THEN BackupData(req[r], r) ELSE files[f]]
                /\ req' = [req EXCEPT ![r] = AfterBackup(Logged(@, "writeFile"))]
           ELSE /\ files' = files
                /\ req' = [req EXCEPT ![r] = Rethrown(@, "writeFile!")]
        /\ UNCHANGED <<server, dirExists, clock, store, nextId, nreq, removedBy, acked>>

\* ------------------------------------------------------- POST /api/vault
PostStart ==
    \E r \in Reqs, name \in Names, content \in Contents :
        /\ Arrives(r)
        /\ LET q == [Fresh EXCEPT !.kind = "POST", !.name = name, !.content = content]
           IN  IF ~Truthy(name) \/ ~Truthy(content)
               THEN /\ req' = [req EXCEPT ![r] = Done(q, 400)]
                    /\ nextId' = nextId
               ELSE /\ req' = [req EXCEPT ![r] =
                            [q EXCEPT !.pc = "save",
                                      !.entry = NewVault(nextId, name, content, clock)]]
                    /\ nextId' = nextId + 1
        /\ UNCHANGED <<server, dirExists, clock, store, files, removedBy, acked>>

\* await newEntry.save(): validation, the pre('save') hook, the insert; then
\* createBackup('CREATE', {name, id}) is called.
PostSave ==
    \E r \in Reqs, ok \in BOOLEAN :
        /\ server = "listening"
        /\ req[r].pc = "save"
        /\ LET q == req[r]
               doc == PreSave(q.entry, clock)
           IN  IF ~ValidateDoc(q.entry)
               THEN /\ req' = [req EXCEPT ![r] = Done(Logged(q, "validate!"), 500)]
                    /\ store' = store
               ELSE IF ~ok
               THEN /\ req' = [req EXCEPT ![r] =
                            Done(Logged([q EXCEPT !.entry = doc], "save!"), 500)]
                    /\ store' = store
               ELSE /\ store' = Insert(store, doc)
                    /\ req' = [req EXCEPT ![r] =
                            CreateBackup(Logged([q EXCEPT !.entry = doc], "save"), "CREATE",
                                         [name |-> q.name, id |-> doc.id])]
        /\ UNCHANGED <<server, dirExists, clock, files, nextId, nreq, removedBy, acked>>

\* ---------------------------------------------------- PUT /api/vault/:id
\* The :id parameters a client sends: malformed, an _id already generated,
\* or a well-formed _id no document has.
IdParams == Malformed..nextId

\* Casting the update {name, content, ..., updatedAt}: a string runs through
\* its setters; an undefined key is dropped (omit) or kept, by the installed
\* mongoose major version.
CastField(v, trimmed) == IF v = Undef THEN Undef ELSE IF trimmed THEN Trim(v) ELSE v

\* Faulty variant of UpdateValidatorsOk: the update runs without runValidators.
NoUpdateValidators(q, omit) == TRUE

\* runValidators: true: the update validators run on every key of the update.
UpdateValidatorsOk(q, omit) ==
    /\ (q.name = Undef /\ omit) \/ RequiredOk(CastField(q.name, TRUE))
    /\ (q.content = Undef /\ omit) \/ RequiredOk(CastField(q.content, FALSE))

\* The document after $set of the casted update (new: true returns it).
ApplyUpdate(doc, q) ==
    [doc EXCEPT !.name = IF q.name = Undef THEN @ ELSE CastField(q.name, TRUE),
                !.content = IF q.content = Undef THEN @ ELSE CastField(q.content, FALSE),
                !.updatedAt = q.ts]

\* The handler up to its await: Date.now() is read when the update is built.
PutStart ==
    \E r \in Reqs, id \in IdParams, name \in Names, content \in Contents :
        /\ Arrives(r)
        /\ req' = [req EXCEPT ![r] =
                [Fresh EXCEPT !.kind = "PUT", !.pc = "update", !.id = id, !.name = name,
                              !.content = content, !.ts = clock]]
        /\ UNCHANGED <<server, dirExists, clock, store, files, nextId, removedBy, acked>>

\* await Vault.findByIdAndUpdate(...): cast and validators, then the store's
\* atomic find-and-modify; null answers 404, else createBackup('UPDATE', ...).
PutUpdate ==
    \E r \in Reqs, ok \in BOOLEAN, omit \in BOOLEAN :
        /\ server = "listening"
        /\ req[r].pc = "update"
        /\ LET q == req[r] IN
           IF q.id = Malformed
           THEN /\ req' = [req EXCEPT ![r] = Done(Logged(q, "cast!"), 500)]
                /\ store' = store
           ELSE IF ~UpdateValidatorsOk(q, omit)
           THEN /\ req' = [req EXCEPT ![r] = Done(Logged(q, "validate!"), 500)]
                /\ store' = store
           ELSE IF ~ok
           THEN /\ req' = [req EXCEPT ![r] = Done(Logged(q, "findByIdAndUpdate!"), 500)]
                /\ store' = store
           ELSE IF q.id \notin DOMAIN store
           THEN /\ req' = [req EXCEPT ![r] = Done(Logged(q, "findByIdAndUpdate"), 404)]
                /\ store' = store
           ELSE LET doc == ApplyUpdate(store[q.id], q) IN
                /\ store' = Insert(store, doc)
                /\ req' = [req EXCEPT ![r] =
                        CreateBackup(Logged([q EXCEPT !.entry = doc, !.prev = store[q.id]],
                                            "findByIdAndUpdate"),
                                     "UPDATE", [name |-> q.name, id |-> doc.id])]
        /\ UNCHANGED <<server, dirExists, clock, files, nextId, nreq, removedBy, acked>>

\* ------------------------------------------------- DELETE /api/vault/:id
DeleteStart ==
    \E r \in Reqs, id \in IdParams :
        /\ Arrives(r)
        /\ req' = [req EXCEPT ![r] = [Fresh EXCEPT !.kind = "DELETE", !.pc = "lookup", !.id = id]]
        /\ UNCHANGED <<server, dirExists, clock, store, files, nextId, removedBy, acked>>

\* Faulty variant of AfterFindById: the entry is deleted first and backed up never.
AfterFindByIdDeleteFirst(q, ok) ==
    IF q.id = Malformed THEN Done(Logged(q, "cast!"), 500)
    ELSE IF ~ok THEN Done(Logged(q, "findById!"), 500)
    ELSE IF q.id \notin DOMAIN store THEN Done(Logged(q, "findById"), 404)
    ELSE [Logged([q EXCEPT !.entry = store[q.id]], "findById") EXCEPT !.pc = "delete"]

\* Faulty variant of AfterFindById: the `if(!entry)` check is missing.
AfterFindByIdNoCheck(q, ok) ==
    IF q.id = Malformed THEN Done(Logged(q, "cast!"), 500)
    ELSE IF ~ok THEN Done(Logged(q, "findById!"), 500)
    ELSE LET e == IF q.id \in DOMAIN store THEN store[q.id] ELSE NoEntry
         IN  CreateBackup(Logged([q EXCEPT !.entry = e], "findById"),
                          "DELETE", [name |-> e.name, id |-> q.id])

\* The handler from findById's answer to its next await: a malformed id or a
\* store error throws (500), null answers 404, else createBackup('DELETE',
\* {name, id}) is called.
AfterFindById(q, ok) ==
    IF q.id = Malformed THEN Done(Logged(q, "cast!"), 500)
    ELSE IF ~ok THEN Done(Logged(q, "findById!"), 500)
    ELSE IF q.id \notin DOMAIN store THEN Done(Logged(q, "findById"), 404)
    ELSE CreateBackup(Logged([q EXCEPT !.entry = store[q.id]], "findById"),
                      "DELETE", [name |-> store[q.id].name, id |-> q.id])

\* await Vault.findById(req.params.id)
DeleteLookup ==
    \E r \in Reqs, ok \in BOOLEAN :
        /\ server = "listening"
        /\ req[r].pc = "lookup"
        /\ req' = [req EXCEPT ![r] = AfterFindById(@, ok)]
        /\ UNCHANGED <<server, dirExists, clock, store, files, nextId, nreq, removedBy, acked>>

\* await Vault.findByIdAndDelete(id): its result is not looked at; the entry
\* read by findById is answered with 200.
DeleteCommit ==
    \E r \in Reqs, ok \in BOOLEAN :
        /\ server = "listening"
        /\ req[r].pc = "delete"
        /\ LET q == req[r] IN
           IF ok
           THEN /\ store' = Remove(store, q.id)
                /\ removedBy' = IF q.id \in DOMAIN store
                                THEN [i \in DOMAIN removedBy \cup {q.id} |->
                                        IF i = q.id THEN r ELSE removedBy[i]]
                                ELSE removedBy
                /\ acked' = acked \cup {q.id}
                /\ req' = [req EXCEPT ![r] = Done(Logged(q, "findByIdAndDelete"), 200)]
           ELSE /\ UNCHANGED <<store, removedBy, acked>>
                /\ req' = [req EXCEPT ![r] = Done(Logged(q, "findByIdAndDelete!"), 500)]
        /\ UNCHANGED <<server, dirExists, clock, files, nextId, nreq>>

\* ------------------------------------------------------- Vault.find().sort
\* Whether document a goes before document b under .sort({[sortBy]: sortOrder}).
SortsBefore(a, b, sortBy, sortOrder) ==
    LET less(x, y) == IF sortBy = "name" THEN StrLess(x.name, y.name)
                      ELSE x.createdAt < y.createdAt
    IN  IF sortOrder = 1 THEN less(a, b) ELSE less(b, a)

RECURSIVE SortedInsert(_, _, _, _)
SortedInsert(seq, d, sortBy, sortOrder) ==
    IF seq = <<>> THEN <<d>>
    ELSE IF SortsBefore(d, Head(seq), sortBy, sortOrder) THEN <<d>> \o seq
    ELSE <<Head(seq)>> \o SortedInsert(Tail(seq), d, sortBy, sortOrder)

\* The documents of st sorted on sortBy; equal keys keep their _id order.
RECURSIVE FindSorted(_, _, _)
FindSorted(st, sortBy, sortOrder) ==
    IF DOMAIN st = {} THEN <<>>
    ELSE LET last == CHOOSE i \in DOMAIN st : \A j \in DOMAIN st : j <= i
         IN  SortedInsert(FindSorted(Remove(st, last), sortBy, sortOrder),
                          st[last], sortBy, sortOrder)

\* ---------------------------------------------------------- GET /api/vault
ListStart ==
    \E r \in Reqs :
        /\ Arrives(r)
        /\ req' = [req EXCEPT ![r] = [Fresh EXCEPT !.kind = "LIST", !.pc = "list_find"]]
        /\ UNCHANGED <<server, dirExists, clock, store, files, nextId, removedBy, acked>>

\* await Vault.find({}).sort({createdAt: -1})
ListFind ==
    \E r \in Reqs, ok \in BOOLEAN :
        /\ server = "listening"
        /\ req[r].pc = "list_find"
        /\ req' = [req EXCEPT ![r] =
                IF ok THEN Done([Logged(@, "find") EXCEPT
                                   !.result = FindSorted(store, "createdAt", -1)], 200)
                ELSE Done(Logged(@, "find!"), 500)]
        /\ UNCHANGED <<server, dirExists, clock, store, files, nextId, nreq, removedBy, acked>>

\* ----------------------------------------------------- GET /api/vault/sort
\* if(by) / if(order): JavaScript truthiness of a query parameter.
Supplied(p) == p # Absent /\ p # ""

\* The handler up to its await: the two parameters are checked in turn, then
\* Vault.find({}).sort(...) is issued.
SortParams(q) ==
    LET byOk == ~Supplied(q.by) \/ q.by \in {"name", "date"}
        orderOk == ~Supplied(q.order) \/ q.order \in {"asc", "desc"}
    IN  IF ~byOk \/ ~orderOk THEN Done(q, 400)
        ELSE [q EXCEPT !.pc = "sort_find",
                       !.sortBy = IF Supplied(q.by) /\ q.by = "name" THEN "name"
                                  ELSE "createdAt",
                       !.sortOrder = IF Supplied(q.order) /\ q.order = "asc" THEN 1 ELSE -1]

SortStart ==
    \E r \in Reqs, by \in Bys, order \in Orders :
        /\ Arrives(r)
        /\ req' = [req EXCEPT ![r] =
                SortParams([Fresh EXCEPT !.kind = "SORT", !.by = by, !.order = order])]
        /\ UNCHANGED <<server, dirExists, clock, store, files, nextId, removedBy, acked>>

\* await Vault.find({}).sort({[sortBy]: sortOrder})
SortFind ==
    \E r \in Reqs, ok \in BOOLEAN :
        /\ server = "listening"
        /\ req[r].pc = "sort_find"
        /\ req' = [req EXCEPT ![r] =
                IF ok THEN Done([Logged(@, "find") EXCEPT
                                   !.result = FindSorted(store, req[r].sortBy,
                                                         req[r].sortOrder)], 200)
                ELSE Done(Logged(@, "find!"), 500)]
        /\ UNCHANGED <<server, dirExists, clock, store, files, nextId, nreq, removedBy, acked>>

Next ==
    \/ StartServer
    \/ Shutdown
    \/ Tick
    \/ Finish
    \/ PostStart
    \/ PostSave
    \/ PutStart
    \/ PutUpdate
    \/ DeleteStart
    \/ DeleteLookup
    \/ DeleteCommit
    \/ ListStart
    \/ ListFind
    \/ SortStart
    \/ SortFind
    \/ BackupFind
    \/ BackupWrite

Spec == Init /\ [][Next]_vars
\* ------------------------------------------------------------------ claims
\* createBackup failed inside request q: its find or its file write threw.
BackupFailed(q) == Has(q, "find!") \/ Has(q, "writeFile!")

\* Request q has issued its store delete (whatever the store answered).
DeleteIssued(q) ==
    q.pc = "delete" \/ Has(q, "findByIdAndDelete") \/ Has(q, "findByIdAndDelete!")

\* A DELETE request whose findById found the entry.
DeleteOfExisting(q) == q.kind = "DELETE" /\ q.entry # NoEntry

\* Request r answers in this step.
Answers(r) == req[r].pc # "done" /\ req'[r].pc = "done"

\* C1 as stated: in a DELETE on an existing id the backup has completed before
\* the store delete is issued; if createBackup fails the delete is never
\* issued and the entry is still in the store when the request answers 500.
C1_EntryStillStoredAfterFailedBackup ==
    [][\A r \in Reqs :
        DeleteOfExisting(req'[r]) =>
            /\ DeleteIssued(req'[r]) => Has(req'[r], "writeFile")
            /\ (BackupFailed(req'[r]) /\ ~BackupFailed(req[r])) =>
                 /\ ~DeleteIssued(req'[r])
                 /\ Answers(r)
                 /\ req'[r].status = 500
                 /\ req'[r].id \in DOMAIN store']_vars

\* C1 amended: in a DELETE on an existing id the backup has completed before
\* the store delete is issued; if createBackup fails the request answers 500
\* and never issues its delete, so the entry is still in the store unless
\* another request's delete removed it.
C1_NoDeleteAfterFailedBackup ==
    \A r \in Reqs :
        DeleteOfExisting(req[r]) =>
            /\ DeleteIssued(req[r]) => Has(req[r], "writeFile")
            /\ BackupFailed(req[r]) =>
                 /\ ~DeleteIssued(req[r])
                 /\ req[r].pc = "done"
                 /\ req[r].status = 500
                 /\ \/ req[r].id \in DOMAIN store
                    \/ /\ req[r].id \in DOMAIN removedBy
                       /\ removedBy[req[r].id] # r

\* A DELETE of an existing entry whose backup write failed has answered 500,
\* and the entry is in the store.
C1_Witness ==
    \E r \in Reqs :
        /\ DeleteOfExisting(req[r])
        /\ Has(req[r], "writeFile!")
        /\ req[r].pc = "done"
        /\ req[r].status = 500
        /\ req[r].id \in DOMAIN store

\* C2 as stated: every DELETE that answers 200 wrote a snapshot containing the
\* entry with its id, and a list-all started after a DELETE's 200 does not
\* return that entry.
C2_DeleteSnapshotHoldsEntry ==
    /\ \A r \in Reqs :
         (req[r].kind = "DELETE" /\ req[r].pc = "done" /\ req[r].status = 200) =>
             /\ Has(req[r], "writeFile")
             /\ req[r].id \in DOMAIN req[r].allData
    /\ \A r \in Reqs :
         (req[r].kind = "LIST" /\ req[r].pc = "done" /\ req[r].status = 200) =>
             \A i \in 1..Len(req[r].result) : req[r].result[i].id \notin req[r].acked0

\* C3 as stated: no backup file, once written, is overwritten or changed by a
\* later createBackup (any two invocations write distinct file names).
C3_SnapshotsWriteOnce ==
    [][\A f \in DOMAIN files : f \in DOMAIN files' /\ files'[f] = files[f]]_vars

\* A create, update or delete request whose backup file write failed.
WriteFailed(q) ==
    q.kind \in {"POST", "PUT", "DELETE"} /\ q.pc = "done" /\ Has(q, "writeFile!")

\* C4 as stated: when the backup write fails in a POST, PUT or DELETE, the
\* request answers 500 and the store then holds exactly what it held before
\* the request.
C4_FailedBackupLeavesStoreAsBefore ==
    [][\A r \in Reqs :
        (Answers(r) /\ WriteFailed(req'[r])) =>
            req'[r].status = 500 /\ store' = req'[r].store0]_vars

\* C4 amended: when the backup write fails in a POST, PUT or DELETE, the
\* request answers 500 and makes no further call; a DELETE has then issued no
\* store delete, while a POST or PUT has already committed its insert or
\* update, which is not undone.
C4_FailedBackupAnswers500 ==
    \A r \in Reqs :
        WriteFailed(req[r]) =>
            /\ req[r].status = 500
            /\ req[r].log[Len(req[r].log)] = "writeFile!"
            /\ req[r].kind = "DELETE" => ~DeleteIssued(req[r])
            /\ req[r].kind = "POST" => Has(req[r], "save")
            /\ req[r].kind = "PUT" => Has(req[r], "findByIdAndUpdate")

\* A POST whose backup write failed has answered 500 with its entry stored.
C4_Witness ==
    \E r \in Reqs :
        /\ req[r].kind = "POST"
        /\ WriteFailed(req[r])
        /\ req[r].status = 500
        /\ req[r].entry.id \in DOMAIN store

\* A PUT or DELETE request whose lookup found no entry under its id.
LookupMissed(q) ==
    /\ q.kind \in {"PUT", "DELETE"}
    /\ Has(q, "findById") \/ Has(q, "findByIdAndUpdate")
    /\ q.entry = NoEntry

\* C5: a PUT or DELETE whose id resolves to no entry at lookup time answers
\* 404, writes no backup file, and its lookup step leaves store and backups
\* unchanged.
C5_MissingIdAnswers404 ==
    /\ [](\A r \in Reqs :
            LookupMissed(req[r]) =>
                /\ req[r].pc = "done"
                /\ req[r].status = 404
                /\ Len(req[r].log) = 1
                /\ \A f \in DOMAIN files : files[f].writer # r)
    /\ [][\A r \in Reqs :
            (LookupMissed(req'[r]) /\ ~LookupMissed(req[r])) =>
                store' = store /\ files' = files]_vars

\* A PUT or DELETE of an id that no entry has was answered 404.
C5_Witness ==
    \E r \in Reqs :
        /\ LookupMissed(req[r])
        /\ req[r].status = 404
        /\ req[r].id \notin DOMAIN store

\* C6 as stated: every PUT on an existing id that answers 200 leaves the
\* entry with a strictly greater updatedAt and the same createdAt and id.
C6_UpdatedAtStrictlyIncreases ==
    \A r \in Reqs :
        (req[r].kind = "PUT" /\ req[r].pc = "done" /\ req[r].status = 200) =>
            /\ req[r].entry.updatedAt > req[r].prev.updatedAt
            /\ req[r].entry.createdAt = req[r].prev.createdAt
            /\ req[r].entry.id = req[r].prev.id

\* C7 as stated: every POST answered 201 returns an entry whose createdAt
\* equals its updatedAt, and a CREATE backup file written by that request
\* exists at the response.
C7_CreatedAtEqualsUpdatedAt ==
    [][\A r \in Reqs :
        (Answers(r) /\ req'[r].kind = "POST" /\ req'[r].status = 201) =>
            /\ req'[r].entry.createdAt = req'[r].entry.updatedAt
            /\ \E f \in DOMAIN files' :
                   files'[f].operation = "CREATE" /\ files'[f].writer = r]_vars

\* C8: whatever bodies the create, update and delete requests carry, every
\* entry in the store has a present, non-empty name and content.
C8_StoredNameAndContentNonEmpty ==
    \A i \in DOMAIN store :
        /\ store[i].name # Undef /\ Len(store[i].name) > 0
        /\ store[i].content # Undef /\ Len(store[i].content) > 0

\* A PUT with an absent, empty or whitespace-only name on a stored entry was
\* refused by the validators.
C8_Witness ==
    \E r \in Reqs :
        /\ req[r].kind = "PUT"
        /\ req[r].name \in {Undef, <<>>, <<" ">>}
        /\ req[r].id \in DOMAIN store
        /\ Has(req[r], "validate!")
        /\ req[r].status = 500

\* C9 as stated: the process never listens for requests while the backups
\* directory is missing (a failed mkdir at startup makes it exit instead).
C9_NeverListensWithoutBackupsDir == server = "listening" => dirExists

\* The names of a result are in non-decreasing order.
NameOrdered(result) ==
    \A i \in 1..Len(result) - 1 : ~StrLess(result[i + 1].name, result[i].name)

\* C10 as stated: a supplied `by` outside {name, date} or `order` outside
\* {asc, desc} answers 400 without a store call; an unsupplied parameter
\* defaults to createdAt, descending; by=name with order=asc returns the
\* entries in non-decreasing name order.
C10_SortParameters ==
    \A r \in Reqs :
        (req[r].kind = "SORT" /\ req[r].pc # "idle") =>
            IF \/ req[r].by \notin {Absent, "name", "date"}
               \/ req[r].order \notin {Absent, "asc", "desc"}
            THEN req[r].pc = "done" /\ req[r].status = 400 /\ req[r].log = <<>>
            ELSE /\ req[r].sortBy = (IF req[r].by = "name" THEN "name" ELSE "createdAt")
                 /\ req[r].sortOrder = (IF req[r].order = "asc" THEN 1 ELSE -1)
                 /\ (req[r].status = 200 /\ req[r].by = "name" /\ req[r].order = "asc")
                        => NameOrdered(req[r].result)
====
